---- MODULE Spec2Model ----
(***************************************************************************)
(* Model of data/utilities/fetch_utility_rates.py: the retrying rate       *)
(* client (api_call), the record extractor functions, the per-state        *)
(* reconciler (fetch_utilities_for_state) and the driver (main).           *)
(*                                                                         *)
(* Conventions.                                                            *)
(*  - A Python str is a sequence of one-character strings, so that         *)
(*    lower(), `in` and str() are computed, not assumed.                   *)
(*  - Money (dollars, dollars per kWh) is an integer count of 1e-5 dollar: *)
(*    0.01 is 1000, 1.0 is 100000, the DE average 0.1432 is 14320.         *)
(*  - A JSON value that may be missing or null is a record [k, v] whose    *)
(*    kind k is "absent", "null" or the type of the payload v.             *)
(*  - Sleeps are counted in tenths of a second.                            *)
(***************************************************************************)
EXTENDS Integers, Sequences, FiniteSets, TLC

VARIABLES
    argv,              \* sys.argv
    pc,                \* position of the single thread of control
    dirCreated,        \* os.makedirs(STATES_DIR) has run
    networkUsed,       \* an HTTP request has been issued
    exitStatus,        \* status passed to sys.exit, -1 while running
    stateIdx,          \* index of the state being processed in main's loop
    phase,             \* "geo" or "direct": which loop of the fetch is running
    qIdx,              \* index of the query point (geo) or known utility (direct)
    attempt,           \* api_call's loop variable
    itemNo,            \* items of the current geographic response already processed
    lastItem,          \* name of the item the loop over data["items"] processed last
    newest,            \* history: per identifier of the geographic phase, the first
                       \* item that carried the largest start date seen for it
    slept,             \* time.sleep durations since the last HTTP attempt
    calls,             \* api_call invocations completed in this fetch
    lastOutcome,       \* how the last api_call ended
    utilities_by_eia,  \* the dict of the running fetch, in insertion order
    results,           \* value returned by the last finished fetch
    files,             \* the state files on disk
    exception,         \* the exception that ended the run, "" if none
    probe              \* a single call of a record extractor function: its
                       \* argument, the function applied and what it returned

vars == <<argv, pc, dirCreated, networkUsed, exitStatus, stateIdx, phase, qIdx,
          attempt, itemNo, lastItem, newest, slept, calls, lastOutcome, utilities_by_eia, results, files,
          exception, probe>>

(***************************************************************************)
(* Bounds of the model                                                     *)
(***************************************************************************)
\* items in one API response
MaxItems == 2

(***************************************************************************)
(* Python strings                                                          *)
(***************************************************************************)
LowerChar(c) ==
    CASE c = "A" -> "a" [] c = "B" -> "b" [] c = "C" -> "c" [] c = "D" -> "d"
      [] c = "E" -> "e" [] c = "F" -> "f" [] c = "G" -> "g" [] c = "H" -> "h"
      [] c = "I" -> "i" [] c = "J" -> "j" [] c = "K" -> "k" [] c = "L" -> "l"
      [] c = "M" -> "m" [] c = "N" -> "n" [] c = "O" -> "o" [] c = "P" -> "p"
      [] c = "Q" -> "q" [] c = "R" -> "r" [] c = "S" -> "s" [] c = "T" -> "t"
      [] c = "U" -> "u" [] c = "V" -> "v" [] c = "W" -> "w" [] c = "X" -> "x"
      [] c = "Y" -> "y" [] c = "Z" -> "z" [] OTHER -> c

\* s.lower()
Lower(s) == [i \in 1..Len(s) |-> LowerChar(s[i])]

\* sub in s
Contains(sub, s) ==
    \E i \in 0..(Len(s) - Len(sub)) : SubSeq(s, i + 1, i + Len(sub)) = sub

DigitChar(d) ==
    CASE d = 0 -> "0" [] d = 1 -> "1" [] d = 2 -> "2" [] d = 3 -> "3"
      [] d = 4 -> "4" [] d = 5 -> "5" [] d = 6 -> "6" [] d = 7 -> "7"
      [] d = 8 -> "8" [] d = 9 -> "9"

RECURSIVE NatToStr(_)
NatToStr(n) == IF n < 10 THEN <<DigitChar(n)>>
               ELSE NatToStr(n \div 10) \o <<DigitChar(n % 10)>>

\* str(n) of an int
IntToStr(n) == IF n < 0 THEN <<"-">> \o NatToStr(-n) ELSE NatToStr(n)

(***************************************************************************)
(* Reference tables, restricted to the states the model runs               *)
(***************************************************************************)
DelmarvaPower == <<"D","e","l","m","a","r","v","a"," ","P","o","w","e","r">>
DominionEnergyVirginia == <<"D","o","m","i","n","i","o","n"," ","E","n","e","r","g","y"," ","V","i","r","g","i","n","i","a">>
AppalachianPowerCo == <<"A","p","p","a","l","a","c","h","i","a","n"," ","P","o","w","e","r"," ","C","o">>
VirginiaElectricAndPowerCo == <<"V","i","r","g","i","n","i","a"," ","E","l","e","c","t","r","i","c"," ","&"," ","P","o","w","e","r"," ","C","o">>

\* sorted(STATE_QUERY_POINTS.keys()), for the states of the model
States == <<"DE", "VA">>

\* len(STATE_QUERY_POINTS[state])
QueryPointCount(state) ==
    CASE state = "DE" -> 2 [] state = "VA" -> 3

\* MAJOR_IOUS[state].items(), in the dict's order
MAJOR_IOUS(state) ==
    CASE state = "DE" -> << [name |-> DelmarvaPower, count |-> 310000] >>
      [] state = "VA" -> << [name |-> DominionEnergyVirginia, count |-> 2700000],
                            [name |-> AppalachianPowerCo, count |-> 530000],
                            [name |-> VirginiaElectricAndPowerCo, count |-> 0] >>

\* EIA_STATE_AVG_RATES[state]
EIA_STATE_AVG_RATES(state) ==
    CASE state = "DE" -> 14320 [] state = "VA" -> 12970

\* EIA_STATE_AVG_RATES.values(): the 50 rates of the table, in its order
EIA_STATE_AVG_RATES_values ==
    << 13980, 23500, 13050, 11870, 27370, 14120, 26630, 14320, 13980, 13230,
       38780, 10600, 15470, 13620, 13970, 13900, 11810, 11330, 22450, 15660,
       28370, 17830, 14070, 12670, 12620, 11940, 11710, 12850, 23610, 17920,
       13820, 22260, 12180, 11420, 14130, 11530, 11990, 16220, 26780, 13150,
       12750, 11770, 13560, 10760, 20740, 12970, 10470, 12430, 15740, 11090 >>

RECURSIVE SumOf(_)
SumOf(xs) == IF xs = <<>> THEN 0 ELSE Head(xs) + SumOf(Tail(xs))

\* NET_METERING_POLICIES[state]
NET_METERING_POLICIES(state) ==
    CASE state = "DE" -> [has_net_metering |-> TRUE, net_metering_type |-> "NEM"]
      [] state = "VA" -> [has_net_metering |-> TRUE, net_metering_type |-> "NEM"]

\* hash(name) of a str is a process-salted integer; it is modelled as an
\* injective map into a range that no identifier of the API falls in
PyHash(name) == 1000000 + Len(name)

(***************************************************************************)
(* JSON values and Python values                                           *)
(***************************************************************************)
Absent == [k |-> "absent", v |-> 0]
Null == [k |-> "null", v |-> 0]
Num(n) == [k |-> "num", v |-> n]

AbsentStr == [k |-> "absent", v |-> <<>>]
NullStr == [k |-> "null", v |-> <<>>]
Str(s) == [k |-> "str", v |-> s]

AbsentList == [k |-> "absent", v |-> <<>>]
NullList == [k |-> "null", v |-> <<>>]
List(l) == [k |-> "list", v |-> l]

\* the "eiaid" member of an item: missing, null, a JSON number or a JSON string
AbsentId == [k |-> "absent", n |-> 0, s |-> <<>>]
NullId == [k |-> "null", n |-> 0, s |-> <<>>]
NumId(n) == [k |-> "num", n |-> n, s |-> <<>>]
StrId(s) == [k |-> "str", n |-> 0, s |-> s]

\* Python values used as dict keys: None, an int or a str
PyNone == [k |-> "none", n |-> 0, s |-> <<>>]
PyInt(n) == [k |-> "num", n |-> n, s |-> <<>>]

\* dict.get(key) and dict.get(key, default) on a member holding an identifier
GetId(member, default) ==
    CASE member.k = "absent" -> default
      [] member.k = "null" -> PyNone
      [] OTHER -> member

\* bool(x) of an identifier value
Truthy(id) ==
    CASE id.k = "none" -> FALSE
      [] id.k = "num" -> id.n # 0
      [] id.k = "str" -> Len(id.s) > 0

\* str(x) of an identifier value
PyStr(id) ==
    CASE id.k = "none" -> <<"N", "o", "n", "e">>
      [] id.k = "num" -> IntToStr(id.n)
      [] id.k = "str" -> id.s

\* round(a / b, 5) of two amounts, and round(x, 4): to the nearest, ties to even
RoundDiv(a, b) ==
    LET q == a \div b
        r == a % b
    IN  IF 2 * r < b THEN q
        ELSE IF 2 * r > b THEN q + 1
        ELSE IF q % 2 = 0 THEN q ELSE q + 1

Round4(x) == RoundDiv(x, 10) * 10

(***************************************************************************)
(* Record extractor                                                        *)
(***************************************************************************)
\* the tiers the loops of extract_rate_from_structure visit, in order:
\* every dict of every period that has a "rate" member
RECURSIVE Flatten(_)
Flatten(structure) ==
    IF structure = <<>> THEN <<>>
    ELSE SelectSeq(Head(structure), LAMBDA tier : tier.rate.k # "absent")
           \o Flatten(Tail(structure))

RECURSIVE SumTiers(_)
SumTiers(tiers) ==
    IF tiers = <<>> THEN 0
    ELSE Head(tiers).rate.v
           + (IF Head(tiers).adj.k = "absent" THEN 0 ELSE Head(tiers).adj.v)
           + SumTiers(Tail(tiers))

\* the "fixedmonthlycharge" branch of extract_rate_from_structure
FixedChargeRate(rate_data) ==
    IF rate_data.fixedmonthlycharge.k # "absent"
    THEN LET fixed == IF rate_data.fixedmonthlycharge.k = "num"
                      THEN rate_data.fixedmonthlycharge.v ELSE 0
         IN  IF fixed > 0
             THEN [k |-> "num", v |-> RoundDiv(fixed, 1000)]
             ELSE [k |-> "none", v |-> 0]
    ELSE [k |-> "none", v |-> 0]

\* variant of extract_rate_from_structure that averages the tiers of the
\* first period only
extract_rate_from_first_period(rate_data) ==
    LET structure == rate_data.energyratestructure
        tiers == IF structure.v = <<>> THEN <<>> ELSE Flatten(<<Head(structure.v)>>)
    IN  IF structure.k = "list" /\ Len(structure.v) > 0
        THEN IF \E i \in 1..Len(tiers) :
                    tiers[i].rate.k = "null" \/ tiers[i].adj.k = "null"
             THEN [k |-> "TypeError", v |-> 0]
             ELSE IF Len(tiers) > 0
                  THEN [k |-> "num", v |-> RoundDiv(SumTiers(tiers), Len(tiers))]
                  ELSE FixedChargeRate(rate_data)
        ELSE FixedChargeRate(rate_data)

\* extract_rate_from_structure: a number, None, or the TypeError that
\* `rate + adj` raises when either operand is None
extract_rate_from_structure(rate_data) ==
    LET structure == rate_data.energyratestructure
        tiers == Flatten(structure.v)
    IN  IF structure.k = "list" /\ Len(structure.v) > 0
        THEN IF \E i \in 1..Len(tiers) :
                    tiers[i].rate.k = "null" \/ tiers[i].adj.k = "null"
             THEN [k |-> "TypeError", v |-> 0]
             ELSE IF Len(tiers) > 0
                  THEN [k |-> "num", v |-> RoundDiv(SumTiers(tiers), Len(tiers))]
                  ELSE FixedChargeRate(rate_data)
        ELSE FixedChargeRate(rate_data)

\* the period indices collected from the weekday schedule
PeriodsUsed(weekday) ==
    {weekday[m][h] : <<m, h>> \in
        {<<m, h>> \in (1..Len(weekday)) \X (0..24) : h \in 1..Len(weekday[m])}}

\* variant of classify_rate_structure that tests the tiers before the schedule
classify_rate_structure_tiers_first(rate_data) ==
    LET weekday == rate_data.energyweekdayschedule
        structure == rate_data.energyratestructure
        has_tou == weekday.k = "list" /\ Len(weekday.v) > 0
                   /\ Cardinality(PeriodsUsed(weekday.v)) > 1
        has_tiers == structure.k = "list"
                     /\ \E p \in 1..Len(structure.v) : Len(structure.v[p]) > 1
    IN  IF has_tiers THEN "tiered" ELSE IF has_tou THEN "tou" ELSE "flat"

classify_rate_structure(rate_data) ==
    LET weekday == rate_data.energyweekdayschedule
        structure == rate_data.energyratestructure
        has_tou == weekday.k = "list" /\ Len(weekday.v) > 0
                   /\ Cardinality(PeriodsUsed(weekday.v)) > 1
        has_tiers == structure.k = "list"
                     /\ \E p \in 1..Len(structure.v) : Len(structure.v[p]) > 1
    IN  IF has_tou THEN "tou" ELSE IF has_tiers THEN "tiered" ELSE "flat"

\* rate_data.get(member) is truthy
has_demand_charges(rate_data) ==
    \/ rate_data.demandratestructure = "truthy"
    \/ rate_data.flatdemandstructure = "truthy"
    \/ rate_data.demandmax = "truthy"

CoopKeywords == <<
    <<"c","o","o","p">>,
    <<"c","o","o","p","e","r","a","t","i","v","e">>,
    <<"c","o","-","o","p">>,
    <<"e","m","c">>,
    <<"e","c"," ">>,
    <<"r","e","c"," ">>,
    <<"r","e","m","c">> >>

MuniKeywords == <<
    <<"c","i","t","y"," ","o","f">>,
    <<"m","u","n","i","c","i","p","a","l">>,
    <<"d","e","p","t"," ","o","f">>,
    <<"d","e","p","a","r","t","m","e","n","t"," ","o","f">>,
    <<"p","u","b","l","i","c"," ","u","t","i","l">>,
    <<"p","u","d">>,
    <<"d","i","s","t","r","i","c","t">>,
    <<"a","u","t","h","o","r","i","t","y">>,
    <<"b","o","a","r","d">>,
    <<"t","o","w","n"," ","o","f">>,
    <<"v","i","l","l","a","g","e"," ","o","f">>,
    <<"c","w","l","&","p">>,
    <<"c","i","t","y"," ","l","i","g","h","t">>,
    <<"e","l","e","c","t","r","i","c"," ","s","e","r","v","i","c","e">>,
    <<"u","t","i","l","i","t","i","e","s"," ","b","o","a","r","d">> >>

\* classify_utility_type of a Python value that is a str or None:
\* None has no lower(), the call raises AttributeError
classify_utility_type(utility_name) ==
    IF utility_name.k # "str" THEN "AttributeError"
    ELSE LET name_lower == Lower(utility_name.v)
         IN  IF \E i \in 1..Len(CoopKeywords) : Contains(CoopKeywords[i], name_lower)
             THEN "coop"
             ELSE IF \E i \in 1..Len(MuniKeywords) : Contains(MuniKeywords[i], name_lower)
             THEN "muni"
             ELSE "IOU"

(***************************************************************************)
(* The items the modelled API can return                                   *)
(***************************************************************************)
Tier(rate, adj) == [rate |-> rate, adj |-> adj]

Unknown == <<"U","n","k","n","o","w","n">>
CityOfDover == <<"C","i","t","y"," ","o","f"," ","D","o","v","e","r">>

\* the first known utility of the state, and a differently-cased longer
\* spelling of it, as the API may report it
FirstKnown(state) == MAJOR_IOUS(state)[1].name
LongerName(state) == Lower(FirstKnown(state)) \o <<" ", "c", "o", "r", "p">>

BaseItem(name, eiaid, utility, startdate) ==
    [name |-> name, eiaid |-> eiaid, utility |-> utility, startdate |-> startdate,
     energyratestructure |-> AbsentList, energyweekdayschedule |-> AbsentList,
     fixedmonthlycharge |-> Absent, demandratestructure |-> "absent",
     flatdemandstructure |-> "absent", demandmax |-> "absent"]

\* items of geographic responses
GeoItemSeq(state) == <<
    \* two tiers 0.10 and 0.12 in one period, named exactly as the known utility
    [BaseItem("g1", NumId(5), Str(FirstKnown(state)), Num(100)) EXCEPT
        !.energyratestructure = List(<< <<Tier(Num(10000), Absent), Tier(Num(12000), Absent)>> >>)],
    \* a newer rate of the same utility, with an implausible rate of 5.0
    [BaseItem("g2", NumId(5), Str(FirstKnown(state)), Num(200)) EXCEPT
        !.energyratestructure = List(<< <<Tier(Num(500000), Absent)>> >>),
        !.demandratestructure = "truthy"],
    \* same identifier and start date as g1, no utility name, time-of-use
    [BaseItem("g3", NumId(5), AbsentStr, Num(100)) EXCEPT
        !.energyratestructure = List(<< <<Tier(Num(10000), Absent)>>,
                                        <<Tier(Num(30000), Num(1000))>> >>),
        !.energyweekdayschedule = List(<< <<0, 0, 1>>, <<0, 1, 1>> >>)],
    \* the identifier "5" as a JSON string, a fixed charge of 9.50 only
    [BaseItem("g4", StrId(<<"5">>), Str(CityOfDover), Absent) EXCEPT
        !.fixedmonthlycharge = Num(950000),
        !.flatdemandstructure = "empty"],
    \* a tier whose rate is null
    [BaseItem("g5", NumId(7), Str(LongerName(state)), Num(100)) EXCEPT
        !.energyratestructure = List(<< <<Tier(Null, Absent)>> >>)],
    \* no identifier
    [BaseItem("g6", AbsentId, Str(FirstKnown(state)), Num(200)) EXCEPT
        !.energyratestructure = List(<< <<Tier(Num(9000), Absent)>> >>)],
    \* a null utility name
    [BaseItem("g7", NumId(7), NullStr, Num(100)) EXCEPT
        !.energyratestructure = List(<< <<Tier(Num(9000), Absent)>> >>)],
    \* a rate of exactly 0.01, a longer spelling of the known name
    [BaseItem("g8", NumId(7), Str(LongerName(state)), Num(100)) EXCEPT
        !.energyratestructure = List(<< <<Tier(Num(1000), Absent)>> >>),
        !.demandmax = "truthy"] >>

\* items of direct-name responses
DirectItemSeq == <<
    \* no identifier (the hash of the searched name is used), no rate information
    BaseItem("d1", AbsentId, AbsentStr, Num(300)),
    \* an identifier the geographic queries return too, with an older start
    \* date, an implausible rate and a time-of-use schedule
    [BaseItem("d2", NumId(5), AbsentStr, Num(50)) EXCEPT
        !.energyratestructure = List(<< <<Tier(Num(200000), Absent)>> >>),
        !.energyweekdayschedule = List(<< <<0, 1>> >>)],
    \* a null identifier, a tier with a null adjustment
    [BaseItem("d3", NullId, AbsentStr, Absent) EXCEPT
        !.energyratestructure = List(<< <<Tier(Num(15000), Null)>> >>)],
    \* a null identifier, a fixed charge of 120.00 only
    [BaseItem("d4", NullId, AbsentStr, Absent) EXCEPT
        !.fixedmonthlycharge = Num(12000000)] >>

Range(f) == {f[i] : i \in DOMAIN f}

\* a decoded response body: JSON null, an object without "items", or an
\* object whose "items" is a list
DataKinds == {"null", "noitems", "items"}

(***************************************************************************)
(* Reconciler: fetch_utilities_for_state                                   *)
(***************************************************************************)
\* a.lower() in b.lower() or b.lower() in a.lower()
NameMatch(a, b) ==
    Contains(Lower(a), Lower(b)) \/ Contains(Lower(b), Lower(a))

\* utilities_by_eia is a sequence of [key, rec] in insertion order
Lookup(d, key) ==
    IF \E i \in 1..Len(d) : d[i].key = key
    THEN CHOOSE i \in 1..Len(d) : d[i].key = key
    ELSE 0

\* d[key] = rec
Put(d, key, rec) ==
    IF Lookup(d, key) # 0
    THEN [d EXCEPT ![Lookup(d, key)].rec = rec]
    ELSE Append(d, [key |-> key, rec |-> rec])

\* item.get("utility", "Unknown"): a str, or None when the member is null
UtilityName(item) ==
    CASE item.utility.k = "absent" -> [k |-> "str", v |-> Unknown]
      [] item.utility.k = "null" -> [k |-> "none", v |-> <<>>]
      [] OTHER -> item.utility

\* item.get("startdate", 0)
StartDate(item) == IF item.startdate.k = "absent" THEN 0 ELSE item.startdate.v

\* customer count of a name: exact match, else the first partial match
CustomerCount(known_ious, utility_name) ==
    LET exact == {i \in 1..Len(known_ious) : known_ious[i].name = utility_name}
        partial == {i \in 1..Len(known_ious) :
                        NameMatch(known_ious[i].name, utility_name)}
        first(S) == CHOOSE i \in S : \A j \in S : i <= j
    IN  IF exact # {} /\ known_ious[first(exact)].count # 0
        THEN known_ious[first(exact)].count
        ELSE IF partial # {} THEN known_ious[first(partial)].count
        ELSE 0

\* variant of PlausibleRate without the upper limit
PlausibleRateNoUpperLimit(avg_rate, state_code) ==
    IF avg_rate.k = "none" \/ avg_rate.v < 1000
    THEN EIA_STATE_AVG_RATES(state_code)
    ELSE avg_rate.v

\* the plausibility test on the extracted rate and the fallback to the state's
\* EIA average
PlausibleRate(avg_rate, state_code) ==
    IF avg_rate.k = "none" \/ avg_rate.v < 1000 \/ avg_rate.v > 100000
    THEN EIA_STATE_AVG_RATES(state_code)
    ELSE avg_rate.v

\* variant of SkipOlder that lets an item with an equal start date through
SkipStrictlyOlder(item_start, existing) == ~(item_start >= existing._startdate)

\* whether an item whose identifier is stored already is skipped
SkipOlder(item_start, existing) == ~(item_start > existing._startdate)

\* variant of GeoRecord that reports time-of-use for every rate that is not flat
GeoRecordTouUnlessFlat(item, eia_id, state_code) ==
    LET utility_name == UtilityName(item).v
        rate_structure == classify_rate_structure(item)
        nm_info == NET_METERING_POLICIES(state_code)
    IN  [utility_id |-> PyStr(eia_id),
         utility_name |-> utility_name,
         state |-> state_code,
         type |-> classify_utility_type(UtilityName(item)),
         customer_count |-> CustomerCount(MAJOR_IOUS(state_code), utility_name),
         residential_avg_rate |->
             Round4(PlausibleRate(extract_rate_from_structure(item), state_code)),
         rate_structure |-> rate_structure,
         has_net_metering |-> nm_info.has_net_metering,
         net_metering_type |-> nm_info.net_metering_type,
         tou_available |-> rate_structure # "flat",
         demand_charges |-> has_demand_charges(item),
         _startdate |-> StartDate(item),
         _rate_name |-> item.name,
         _source |-> ""]

\* the record built from a geographic item
GeoRecord(item, eia_id, state_code) ==
    LET utility_name == UtilityName(item).v
        rate_structure == classify_rate_structure(item)
        nm_info == NET_METERING_POLICIES(state_code)
    IN  [utility_id |-> PyStr(eia_id),
         utility_name |-> utility_name,
         state |-> state_code,
         type |-> classify_utility_type(UtilityName(item)),
         customer_count |-> CustomerCount(MAJOR_IOUS(state_code), utility_name),
         residential_avg_rate |->
             Round4(PlausibleRate(extract_rate_from_structure(item), state_code)),
         rate_structure |-> rate_structure,
         has_net_metering |-> nm_info.has_net_metering,
         net_metering_type |-> nm_info.net_metering_type,
         tou_available |-> rate_structure = "tou",
         demand_charges |-> has_demand_charges(item),
         _startdate |-> StartDate(item),
         _rate_name |-> item.name,
         _source |-> ""]

\* one pass of the loop over data["items"]: the dict afterwards, and the
\* exception the pass raised, if any
ProcessGeoItem(d, item, state_code) ==
    LET eia_id == GetId(item.eiaid, PyNone)
        at == Lookup(d, eia_id)
    IN  IF ~Truthy(eia_id) THEN [utils |-> d, exc |-> ""]
        ELSE IF at # 0 /\ SkipOlder(StartDate(item), d[at].rec)
        THEN [utils |-> d, exc |-> ""]
        ELSE IF extract_rate_from_structure(item).k = "TypeError"
        THEN [utils |-> d, exc |-> "TypeError"]
        ELSE IF classify_utility_type(UtilityName(item)) = "AttributeError"
        THEN [utils |-> d, exc |-> "AttributeError"]
        ELSE [utils |-> Put(d, eia_id, GeoRecord(item, eia_id, state_code)),
              exc |-> ""]

\* the `found` test of the back-fill loop
Found(d, iou_name) ==
    \E i \in 1..Len(d) : NameMatch(iou_name, d[i].rec.utility_name)

\* the key under which the back-fill stores the record of a direct item
DirectKey(item, iou_name) == GetId(item.eiaid, PyInt(PyHash(iou_name)))

\* the record built from the first item of a direct-name response
DirectRecord(item, iou, state_code) ==
    LET nm_info == NET_METERING_POLICIES(state_code)
    IN  [utility_id |-> PyStr(DirectKey(item, iou.name)),
         utility_name |-> iou.name,
         state |-> state_code,
         type |-> classify_utility_type([k |-> "str", v |-> iou.name]),
         customer_count |-> iou.count,
         residential_avg_rate |->
             Round4(PlausibleRate(extract_rate_from_structure(item), state_code)),
         rate_structure |-> classify_rate_structure(item),
         has_net_metering |-> nm_info.has_net_metering,
         net_metering_type |-> nm_info.net_metering_type,
         tou_available |-> classify_rate_structure(item) = "tou",
         demand_charges |-> has_demand_charges(item),
         _startdate |-> StartDate(item),
         _rate_name |-> item.name,
         _source |-> ""]

\* variant of SynthRecord that reports the rate structure as flat
SynthRecordFlat(iou, state_code) ==
    LET nm_info == NET_METERING_POLICIES(state_code)
    IN  [utility_id |-> PyStr(PyInt(PyHash(iou.name))),
         utility_name |-> iou.name,
         state |-> state_code,
         type |-> classify_utility_type([k |-> "str", v |-> iou.name]),
         customer_count |-> iou.count,
         residential_avg_rate |-> EIA_STATE_AVG_RATES(state_code),
         rate_structure |-> "flat",
         has_net_metering |-> nm_info.has_net_metering,
         net_metering_type |-> nm_info.net_metering_type,
         tou_available |-> FALSE,
         demand_charges |-> FALSE,
         _startdate |-> 0,
         _rate_name |-> "Estimated",
         _source |-> "EIA-861"]

\* the record synthesized from the reference tables alone
SynthRecord(iou, state_code) ==
    LET nm_info == NET_METERING_POLICIES(state_code)
    IN  [utility_id |-> PyStr(PyInt(PyHash(iou.name))),
         utility_name |-> iou.name,
         state |-> state_code,
         type |-> classify_utility_type([k |-> "str", v |-> iou.name]),
         customer_count |-> iou.count,
         residential_avg_rate |-> EIA_STATE_AVG_RATES(state_code),
         rate_structure |-> "tiered",
         has_net_metering |-> nm_info.has_net_metering,
         net_metering_type |-> nm_info.net_metering_type,
         tou_available |-> FALSE,
         demand_charges |-> FALSE,
         _startdate |-> 0,
         _rate_name |-> "Estimated",
         _source |-> "EIA-861"]

\* the body of `if not found` when data["items"] has a first item
BackFillItem(d, item, iou, state_code) ==
    IF extract_rate_from_structure(item).k = "TypeError"
    THEN [utils |-> d, exc |-> "TypeError"]
    ELSE [utils |-> Put(d, DirectKey(item, iou.name),
                        DirectRecord(item, iou, state_code)),
          exc |-> ""]

\* the body of `if not found` when api_call returned None or no item
BackFillSynth(d, iou, state_code) ==
    Put(d, PyInt(PyHash(iou.name)), SynthRecord(iou, state_code))

\* variant of NextDirect that does not pass over the utilities of count 0
NextDirectAnyCount(d, state_code, from) ==
    LET known_ious == MAJOR_IOUS(state_code)
        todo == {j \in from..Len(known_ious) : ~Found(d, known_ious[j].name)}
    IN  IF todo = {} THEN 0 ELSE CHOOSE j \in todo : \A i \in todo : j <= i

\* the first known utility at or after index `from` that the back-fill loop
\* queries by name: nonzero count and not found; 0 when the loop ends
NextDirect(d, state_code, from) ==
    LET known_ious == MAJOR_IOUS(state_code)
        todo == {j \in from..Len(known_ious) :
                    known_ious[j].count # 0 /\ ~Found(d, known_ious[j].name)}
    IN  IF todo = {} THEN 0 ELSE CHOOSE j \in todo : \A i \in todo : j <= i

\* u without its members whose name starts with "_"
Clean(u) ==
    [utility_id |-> u.utility_id, utility_name |-> u.utility_name,
     state |-> u.state, type |-> u.type, customer_count |-> u.customer_count,
     residential_avg_rate |-> u.residential_avg_rate,
     rate_structure |-> u.rate_structure,
     has_net_metering |-> u.has_net_metering,
     net_metering_type |-> u.net_metering_type,
     tou_available |-> u.tou_available, demand_charges |-> u.demand_charges]

\* variant of InsertByCount that puts x before the elements of equal count
RECURSIVE InsertBeforeEqualCount(_, _)
InsertBeforeEqualCount(xs, x) ==
    IF xs = <<>> THEN <<x>>
    ELSE IF Head(xs).customer_count > x.customer_count
    THEN <<Head(xs)>> \o InsertBeforeEqualCount(Tail(xs), x)
    ELSE <<x>> \o xs

\* the position list.sort(key=customer_count, reverse=True) gives x among the
\* already sorted xs: after every element whose count is not smaller
RECURSIVE InsertByCount(_, _)
InsertByCount(xs, x) ==
    IF xs = <<>> THEN <<x>>
    ELSE IF Head(xs).customer_count >= x.customer_count
    THEN <<Head(xs)>> \o InsertByCount(Tail(xs), x)
    ELSE <<x>> \o xs

RECURSIVE SortByCount(_)
SortByCount(xs) ==
    IF xs = <<>> THEN <<>>
    ELSE InsertByCount(SortByCount(SubSeq(xs, 1, Len(xs) - 1)), xs[Len(xs)])

\* the list fetch_utilities_for_state returns
Results(d) == SortByCount([i \in 1..Len(d) |-> Clean(d[i].rec)])

(***************************************************************************)
(* The program                                                             *)
(***************************************************************************)
\* the command lines the model starts from: no argument, an empty argument,
\* a key
CommandLines ==
    { <<"fetch_utility_rates.py">>,
      <<"fetch_utility_rates.py", "">>,
      <<"fetch_utility_rates.py", "KEY">> }

\* API_KEY = sys.argv[1] if len(sys.argv) > 1 else ""
API_KEY == IF Len(argv) > 1 THEN argv[2] ELSE ""

\* the exceptions an HTTP attempt can end with: those the except clause of
\* api_call names, and those it does not (a timeout or a reset while the
\* response is read is a TimeoutError / OSError, not a URLError; bytes that
\* are not UTF-8 raise UnicodeDecodeError, not JSONDecodeError)
CaughtErrors == {"URLError", "HTTPError", "JSONDecodeError"}
UncaughtErrors == {"TimeoutError", "ConnectionResetError", "UnicodeDecodeError"}

\* api_call's `retries` default
Retries == 3
\* time.sleep(0.3), in tenths of a second
Pacing == 3
\* time.sleep(1 * (attempt + 1)), in tenths of a second
Backoff(n) == 10 * (n + 1)

StateSet == Range(States)
NoFile == [status |-> "absent"]

\* no extractor function is being called on its own
NoProbe ==
    [rate_data |-> BaseItem("", AbsentId, AbsentStr, Absent), applied |-> "",
     rate |-> [k |-> "none", v |-> 0], rate_structure |-> ""]

Init ==
    /\ argv \in CommandLines
    /\ pc = "start"
    /\ dirCreated = FALSE
    /\ networkUsed = FALSE
    /\ exitStatus = -1
    /\ stateIdx = 0
    /\ phase = "geo"
    /\ qIdx = 0
    /\ attempt = 0
    /\ itemNo = 0
    /\ lastItem = ""
    /\ newest = {}
    /\ slept = <<>>
    /\ calls = 0
    /\ lastOutcome = "none"
    /\ utilities_by_eia = <<>>
    /\ results = <<>>
    /\ files = [f \in StateSet \cup {"national"} |-> NoFile]
    /\ exception = ""
    /\ probe = NoProbe

CurState == States[stateIdx]

\* variant of MainStart without the usage exit
MainStartWithoutKeyCheck ==
    /\ pc = "start"
    /\ pc' = "next_state"
    /\ dirCreated' = TRUE
    /\ stateIdx' = 1
    /\ UNCHANGED <<probe, argv, networkUsed, exitStatus, phase, qIdx, attempt, itemNo,
                   lastItem, newest, slept, calls, lastOutcome, utilities_by_eia,
                   results, files, exception>>

\* main up to the loop over the states: the usage exit, or makedirs
MainStart ==
    /\ pc = "start"
    /\ IF API_KEY = ""
       THEN /\ pc' = "exited"
            /\ exitStatus' = 1
            /\ UNCHANGED <<dirCreated, stateIdx>>
       ELSE /\ pc' = "next_state"
            /\ dirCreated' = TRUE
            /\ stateIdx' = 1
            /\ UNCHANGED exitStatus
    /\ UNCHANGED <<probe, argv, networkUsed, phase, qIdx, attempt, itemNo, lastItem,
                   newest, slept, calls, lastOutcome, utilities_by_eia, results,
                   files, exception>>

\* main calls fetch_utilities_for_state(state), which runs up to the first
\* HTTP attempt of its first geographic query
BeginState ==
    /\ pc = "next_state"
    /\ stateIdx <= Len(States)
    /\ pc' = "http"
    /\ phase' = "geo"
    /\ qIdx' = 1
    /\ attempt' = 0
    /\ itemNo' = 0
    /\ lastItem' = ""
    /\ calls' = 0
    /\ slept' = <<>>
    /\ lastOutcome' = "none"
    /\ utilities_by_eia' = <<>>
    /\ newest' = {}
    /\ results' = <<>>
    /\ UNCHANGED <<probe, argv, dirCreated, networkUsed, exitStatus, stateIdx, files,
                   exception>>

\* where the fetch goes once the current api_call has been handled and the
\* dict is d: the next query point, the next known utility to search by
\* name, or the return
NextPoint(d) ==
    IF phase = "geo" /\ qIdx < QueryPointCount(CurState)
    THEN [phase |-> "geo", qIdx |-> qIdx + 1, done |-> FALSE]
    ELSE LET j == NextDirect(d, CurState, IF phase = "geo" THEN 1 ELSE qIdx + 1)
         IN  IF j = 0
             THEN [phase |-> "direct", qIdx |-> Len(MAJOR_IOUS(CurState)) + 1,
                   done |-> TRUE]
             ELSE [phase |-> "direct", qIdx |-> j, done |-> FALSE]

Proceed(d) ==
    /\ utilities_by_eia' = d
    /\ phase' = NextPoint(d).phase
    /\ qIdx' = NextPoint(d).qIdx
    /\ attempt' = 0
    /\ itemNo' = 0
    /\ lastItem' = ""
    /\ calls' = calls + 1
    /\ pc' = IF NextPoint(d).done THEN "fetched" ELSE "http"
    /\ results' = IF NextPoint(d).done THEN Results(d) ELSE results
    /\ UNCHANGED <<exception, exitStatus, newest>>

\* an uncaught exception unwinds fetch_utilities_for_state and main
Crash(e) ==
    /\ pc' = "crashed"
    /\ exception' = e
    /\ exitStatus' = 1
    /\ UNCHANGED <<utilities_by_eia, phase, qIdx, attempt, itemNo, calls, results,
                   newest>>

\* an HTTP attempt fails with a caught exception and is retried after the
\* back-off sleep
AttemptRetry ==
    /\ pc = "http"
    /\ attempt < Retries - 1
    /\ \E e \in CaughtErrors :
        /\ networkUsed' = TRUE
        /\ slept' = <<Backoff(attempt)>>
        /\ attempt' = attempt + 1
        /\ lastOutcome' = "retry"
    /\ UNCHANGED <<probe, argv, pc, dirCreated, exitStatus, stateIdx, phase, qIdx, itemNo,
                   lastItem, newest, calls, utilities_by_eia, results, files,
                   exception>>

\* variant of AttemptGiveUp in which a failed query ends the fetch at once
AttemptGiveUpReturns ==
    /\ pc = "http"
    /\ attempt = Retries - 1
    /\ networkUsed' = TRUE
    /\ lastOutcome' = "failed"
    /\ slept' = <<>>
    /\ pc' = "fetched"
    /\ results' = Results(utilities_by_eia)
    /\ calls' = calls + 1
    /\ UNCHANGED <<probe, argv, dirCreated, exitStatus, stateIdx, phase, qIdx, attempt,
                   itemNo, lastItem, newest, utilities_by_eia, files, exception>>

\* the last HTTP attempt fails with a caught exception: api_call returns
\* None; a geographic query point is skipped (continue), a known utility
\* gets its synthesized record and the pacing sleep
AttemptGiveUp ==
    /\ pc = "http"
    /\ attempt = Retries - 1
    /\ \E e \in CaughtErrors :
        /\ networkUsed' = TRUE
        /\ lastOutcome' = "failed"
        /\ IF phase = "geo"
           THEN /\ slept' = <<>>
                /\ Proceed(utilities_by_eia)
           ELSE /\ slept' = <<Pacing>>
                /\ Proceed(BackFillSynth(utilities_by_eia,
                                         MAJOR_IOUS(CurState)[qIdx], CurState))
    /\ UNCHANGED <<probe, argv, dirCreated, stateIdx, files>>

\* an HTTP attempt ends with an exception the except clause does not name
AttemptRaise ==
    /\ pc = "http"
    /\ \E e \in UncaughtErrors :
        /\ networkUsed' = TRUE
        /\ lastOutcome' = "raised"
        /\ slept' = <<>>
        /\ Crash(e)
    /\ UNCHANGED <<probe, argv, dirCreated, stateIdx, files, lastItem>>

\* an HTTP attempt of a geographic query succeeds with a body that is null
\* or has no "items": the query point is skipped (continue)
GeoNoData ==
    /\ pc = "http"
    /\ phase = "geo"
    /\ \E kind \in DataKinds \ {"items"} :
        /\ networkUsed' = TRUE
        /\ lastOutcome' = "ok"
        /\ slept' = <<>>
        /\ Proceed(utilities_by_eia)
    /\ UNCHANGED <<probe, argv, dirCreated, stateIdx, files>>

\* an HTTP attempt of a geographic query succeeds with a body that has
\* "items": the loop over the items starts
GeoData ==
    /\ pc = "http"
    /\ phase = "geo"
    /\ networkUsed' = TRUE
    /\ lastOutcome' = "ok"
    /\ slept' = <<>>
    /\ pc' = "items"
    /\ itemNo' = 0
    /\ lastItem' = ""
    /\ UNCHANGED <<probe, argv, dirCreated, exitStatus, stateIdx, phase, qIdx, attempt,
                   newest, calls, utilities_by_eia, results, files, exception>>

\* the history of the geographic phase after an item with identifier key,
\* start date start and name name
Remember(history, key, start, name) ==
    IF \E h \in history : h.key = key /\ h.start >= start
    THEN history
    ELSE {h \in history : h.key # key}
           \cup {[key |-> key, start |-> start, name |-> name]}

\* one pass of the loop over data["items"], for the next item of the list
GeoItem ==
    /\ pc = "items"
    /\ itemNo < MaxItems
    /\ \E i \in 1..Len(GeoItemSeq(CurState)) :
        LET item == GeoItemSeq(CurState)[i]
            r == ProcessGeoItem(utilities_by_eia, item, CurState)
        IN  /\ lastItem' = item.name
            /\ IF r.exc # ""
               THEN /\ Crash(r.exc)
               ELSE /\ utilities_by_eia' = r.utils
                    /\ itemNo' = itemNo + 1
                    /\ newest' = IF Truthy(GetId(item.eiaid, PyNone))
                                 THEN Remember(newest, GetId(item.eiaid, PyNone),
                                               StartDate(item), item.name)
                                 ELSE newest
                    /\ UNCHANGED <<pc, phase, qIdx, attempt, calls, results,
                                   exception, exitStatus>>
    /\ UNCHANGED <<probe, argv, dirCreated, networkUsed, stateIdx, slept, lastOutcome,
                   files>>

\* the list of items is exhausted: the pacing sleep, then the next query
GeoItemsEnd ==
    /\ pc = "items"
    /\ slept' = <<Pacing>>
    /\ Proceed(utilities_by_eia)
    /\ UNCHANGED <<probe, argv, dirCreated, networkUsed, stateIdx, lastOutcome, files>>

\* an HTTP attempt of a direct-name query succeeds with no first item (null,
\* no "items", an empty list): the record of the known utility is synthesized
DirectNoItem ==
    /\ pc = "http"
    /\ phase = "direct"
    /\ networkUsed' = TRUE
    /\ lastOutcome' = "ok"
    /\ slept' = <<Pacing>>
    /\ Proceed(BackFillSynth(utilities_by_eia, MAJOR_IOUS(CurState)[qIdx], CurState))
    /\ UNCHANGED <<probe, argv, dirCreated, stateIdx, files>>

\* an HTTP attempt of a direct-name query succeeds with items: the record of
\* the known utility is built from the first one (the rest is not read)
DirectItem ==
    /\ pc = "http"
    /\ phase = "direct"
    /\ \E i \in 1..Len(DirectItemSeq) :
        LET r == BackFillItem(utilities_by_eia, DirectItemSeq[i],
                              MAJOR_IOUS(CurState)[qIdx], CurState)
        IN  /\ networkUsed' = TRUE
            /\ lastOutcome' = "ok"
            /\ IF r.exc # ""
               THEN /\ slept' = <<>>
                    /\ lastItem' = DirectItemSeq[i].name
                    /\ Crash(r.exc)
               ELSE /\ slept' = <<Pacing>>
                    /\ Proceed(r.utils)
    /\ UNCHANGED <<probe, argv, dirCreated, stateIdx, files>>

\* open(state_file, "w"): the file exists and is empty
OpenStateFile ==
    /\ pc = "fetched"
    /\ pc' = "dump"
    /\ files' = [files EXCEPT ![CurState] = [status |-> "open"]]
    /\ UNCHANGED <<probe, argv, dirCreated, networkUsed, exitStatus, stateIdx, phase,
                   qIdx, attempt, itemNo, lastItem, newest, slept, calls,
                   lastOutcome, utilities_by_eia, results, exception>>

\* json.dump(state_data, f) and the rest of the loop body of main
DumpStateFile ==
    /\ pc = "dump"
    /\ pc' = "next_state"
    /\ files' = [files EXCEPT ![CurState] = [status |-> "complete"]]
    /\ stateIdx' = stateIdx + 1
    /\ UNCHANGED <<probe, argv, dirCreated, networkUsed, exitStatus, phase, qIdx,
                   attempt, itemNo, lastItem, newest, slept, calls, lastOutcome,
                   utilities_by_eia, results, exception>>

\* variant of national_avg_rate: the mean rate of the utilities found
national_avg_rate_of_utilities ==
    IF results = <<>> THEN 0
    ELSE Round4(RoundDiv(SumOf([i \in 1..Len(results) |->
                                   results[i].residential_avg_rate]),
                         Len(results)))

\* round(sum(EIA_STATE_AVG_RATES.values()) / len(EIA_STATE_AVG_RATES), 4)
national_avg_rate ==
    RoundDiv(SumOf(EIA_STATE_AVG_RATES_values),
             10 * Len(EIA_STATE_AVG_RATES_values)) * 10

\* after the last state: the national file is written and main returns
WriteNational ==
    /\ pc = "next_state"
    /\ stateIdx > Len(States)
    /\ pc' = "done"
    /\ exitStatus' = 0
    /\ files' = [files EXCEPT !["national"] =
                    [status |-> "complete", national_avg_rate |-> national_avg_rate]]
    /\ UNCHANGED <<probe, argv, dirCreated, networkUsed, stateIdx, phase, qIdx, attempt,
                   itemNo, lastItem, newest, slept, calls, lastOutcome,
                   utilities_by_eia, results, exception>>

Next ==
    \/ MainStart
    \/ BeginState
    \/ AttemptRetry
    \/ AttemptGiveUp
    \/ AttemptRaise
    \/ GeoNoData
    \/ GeoData
    \/ GeoItem
    \/ GeoItemsEnd
    \/ DirectNoItem
    \/ DirectItem
    \/ OpenStateFile
    \/ DumpStateFile
    \/ WriteNational

Spec == Init /\ [][Next]_vars

(***************************************************************************)
(* The record extractor functions called on their own                      *)
(***************************************************************************)
\* values of the "energyweekdayschedule" member: months of period indices
WeekdaySchedules ==
    { AbsentList, NullList, List(<<>>),
      List(<< <<0, 0, 0>> >>),
      List(<< <<0, 0, 1>> >>),
      List(<< <<0, 0>>, <<1, 1>> >>),
      List(<< <<2, 2>>, <<2, 2>> >>),
      List(<< <<>>, <<1>> >>) }

\* values of the "energyratestructure" member: periods of tiers
RateStructures ==
    { AbsentList, NullList, List(<<>>),
      List(<< <<>> >>),
      List(<< <<Tier(Num(10000), Absent)>> >>),
      List(<< <<Tier(Num(10000), Absent), Tier(Num(12000), Absent)>> >>),
      List(<< <<Tier(Num(10000), Absent)>>, <<Tier(Num(30000), Num(1000))>> >>),
      List(<< <<Tier(Num(10000), Absent), Tier(Num(10000), Absent),
                Tier(Num(11000), Absent)>> >>),
      List(<< <<Tier(Num(8000), Absent)>>,
              <<Tier(Num(9000), Absent), Tier(Num(20000), Num(-500))>> >>),
      List(<< <<Tier(Absent, Absent)>> >>),
      List(<< <<Tier(Null, Absent)>> >>) }

\* values of the "fixedmonthlycharge" member: missing, null, 0, 9.50, -1.00
\* and 0.004 dollars
FixedCharges ==
    { Absent, Null, Num(0), Num(950000), Num(-100000), Num(400) }

\* the dicts the functions are called with
RateData ==
    { [BaseItem("probe", AbsentId, AbsentStr, Absent) EXCEPT
          !.energyweekdayschedule = w,
          !.energyratestructure = st,
          !.fixedmonthlycharge = fx] :
      w \in WeekdaySchedules, st \in RateStructures, fx \in FixedCharges }

InitExtractor ==
    /\ argv = <<"fetch_utility_rates.py", "KEY">>
    /\ pc = "extractor"
    /\ dirCreated = FALSE
    /\ networkUsed = FALSE
    /\ exitStatus = -1
    /\ stateIdx = 0
    /\ phase = "geo"
    /\ qIdx = 0
    /\ attempt = 0
    /\ itemNo = 0
    /\ lastItem = ""
    /\ newest = {}
    /\ slept = <<>>
    /\ calls = 0
    /\ lastOutcome = "none"
    /\ utilities_by_eia = <<>>
    /\ results = <<>>
    /\ files = [f \in StateSet \cup {"national"} |-> NoFile]
    /\ exception = ""
    /\ \E rate_data \in RateData : probe = [NoProbe EXCEPT !.rate_data = rate_data]

\* extract_rate_from_structure(rate_data)
ApplyExtractRate ==
    /\ pc = "extractor"
    /\ probe.applied = ""
    /\ probe' = [probe EXCEPT
                    !.applied = "extract_rate_from_structure",
                    !.rate = extract_rate_from_structure(probe.rate_data)]
    /\ UNCHANGED <<argv, pc, dirCreated, networkUsed, exitStatus, stateIdx, phase,
                   qIdx, attempt, itemNo, lastItem, newest, slept, calls,
                   lastOutcome, utilities_by_eia, results, files, exception>>

\* classify_rate_structure(rate_data)
ApplyClassifyRateStructure ==
    /\ pc = "extractor"
    /\ probe.applied = ""
    /\ probe' = [probe EXCEPT
                    !.applied = "classify_rate_structure",
                    !.rate_structure = classify_rate_structure(probe.rate_data)]
    /\ UNCHANGED <<argv, pc, dirCreated, networkUsed, exitStatus, stateIdx, phase,
                   qIdx, attempt, itemNo, lastItem, newest, slept, calls,
                   lastOutcome, utilities_by_eia, results, files, exception>>

NextExtractor ==
    \/ ApplyExtractRate
    \/ ApplyClassifyRateStructure

SpecExtractor == InitExtractor /\ [][NextExtractor]_vars

(***************************************************************************)
(* Properties                                                              *)
(***************************************************************************)
\* the known utilities of the running state that have a nonzero count
KnownNonzero == {k \in Range(MAJOR_IOUS(CurState)) : k.count # 0}

\* the records of the returned list that stand for a known utility: those
\* whose name matches it the way the back-fill loop matches names
RecordsOf(known) ==
    {i \in 1..Len(results) : NameMatch(known.name, results[i].utility_name)}

\* fetch_utilities_for_state has returned and main holds its list
Returned == pc \in {"fetched", "dump"}

\* C1: the list returned by fetch_utilities_for_state holds no two records
\* with the same utility_id string.
C1_UniqueUtilityIds ==
    Returned =>
        \A i, j \in 1..Len(results) :
            i # j => results[i].utility_id # results[j].utility_id

\* C2: every known utility of the state with a nonzero customer count is
\* represented by exactly one record of the returned list.
C2_KnownUtilityExactlyOnce ==
    Returned => \A known \in KnownNonzero : Cardinality(RecordsOf(known)) = 1

\* a returned list in which a known utility with a nonzero count has no record
C2_KnownUtilityMissing ==
    /\ Returned
    /\ \E known \in KnownNonzero : RecordsOf(known) = {}

\* the item of the model that carries the rate name n
AllItems == Range(GeoItemSeq(CurState)) \cup Range(DirectItemSeq)
ItemNamed(n) == CHOOSE item \in AllItems : item.name = n

\* the fetch is running its geographic loop
InGeoPhase == pc \in {"http", "items"} /\ phase = "geo"

\* C3: in the geographic phase a stored record is replaced only by an item
\* with a strictly greater start date, so the record stored for an
\* identifier comes from the first item that carried the largest start date
\* seen for it.
C3_NewerSupersedesOlder ==
    InGeoPhase =>
        \A i \in 1..Len(utilities_by_eia) :
            \E h \in newest :
                /\ h.key = utilities_by_eia[i].key
                /\ h.name = utilities_by_eia[i].rec._rate_name
                /\ h.start = utilities_by_eia[i].rec._startdate

\* g3 arrives after g1 with the same identifier and start date: g1 is kept
C3_TieKeepsFirstSeen ==
    /\ pc = "items"
    /\ lastItem = "g3"
    /\ \E i \in 1..Len(utilities_by_eia) :
        /\ utilities_by_eia[i].key = PyInt(5)
        /\ utilities_by_eia[i].rec._rate_name = "g1"

\* the extracted rate is absent or outside [0.01, 1.0]
Implausible(avg_rate) ==
    avg_rate.k = "none" \/ avg_rate.v < 1000 \/ avg_rate.v > 100000

\* C4: every emitted record has residential_avg_rate within [0.01, 1.0], and
\* when the rate extracted from its item is absent or outside that range the
\* record carries the state's EIA average, as a synthesized record does.
C4_RateWithinPlausibleRange ==
    Returned =>
        /\ \A i \in 1..Len(results) :
            /\ results[i].residential_avg_rate >= 1000
            /\ results[i].residential_avg_rate <= 100000
        /\ \A i \in 1..Len(utilities_by_eia) :
            LET rec == utilities_by_eia[i].rec
            IN  IF rec._rate_name = "Estimated"
                THEN rec.residential_avg_rate = EIA_STATE_AVG_RATES(CurState)
                ELSE Implausible(extract_rate_from_structure(ItemNamed(rec._rate_name)))
                        => rec.residential_avg_rate = EIA_STATE_AVG_RATES(CurState)

\* the record built from g2, whose extracted rate is 5.0, is returned with
\* the state's EIA average
C4_ImplausibleRateReplaced ==
    /\ Returned
    /\ \E i \in 1..Len(utilities_by_eia) :
        /\ utilities_by_eia[i].rec._rate_name = "g2"
        /\ extract_rate_from_structure(ItemNamed("g2")).v = 500000
        /\ utilities_by_eia[i].rec.residential_avg_rate = EIA_STATE_AVG_RATES(CurState)
        /\ \E j \in 1..Len(results) :
            results[j].utility_id = utilities_by_eia[i].rec.utility_id

\* the known utilities the back-fill loop has to search by name, given the
\* records accumulated so far
Unmatched(d) ==
    {j \in 1..Len(MAJOR_IOUS(CurState)) :
        /\ MAJOR_IOUS(CurState)[j].count # 0
        /\ \A i \in 1..Len(d) :
            ~NameMatch(MAJOR_IOUS(CurState)[j].name, d[i].rec.utility_name)}

\* C5: when api_call returns None after its retries the fetch goes on: the
\* records accumulated so far are unchanged, the next query point is
\* queried, after the last query point the back-fill runs, and the list is
\* returned when nothing is left to query.
C5_FailedQueryContinues ==
    [][ (pc = "http" /\ attempt = Retries - 1 /\ lastOutcome' = "failed") =>
            /\ pc' \in {"http", "fetched"}
            /\ exception' = ""
            /\ Len(utilities_by_eia') >= Len(utilities_by_eia)
            /\ SubSeq(utilities_by_eia', 1, Len(utilities_by_eia)) = utilities_by_eia
            /\ phase = "geo" => utilities_by_eia' = utilities_by_eia
            /\ (phase = "geo" /\ qIdx < QueryPointCount(CurState)) =>
                    pc' = "http" /\ phase' = "geo" /\ qIdx' = qIdx + 1 /\ attempt' = 0
            /\ (phase = "geo" /\ qIdx = QueryPointCount(CurState)) =>
                    IF Unmatched(utilities_by_eia) = {}
                    THEN pc' = "fetched"
                    ELSE /\ pc' = "http" /\ phase' = "direct" /\ attempt' = 0
                         /\ qIdx' \in Unmatched(utilities_by_eia)
                         /\ \A j \in Unmatched(utilities_by_eia) : qIdx' <= j
            /\ pc' = "fetched" => results' = Results(utilities_by_eia')
      ]_vars

\* a geographic query has just failed after records were accumulated, and
\* the next query is about to be issued
C5_FailedQueryAfterRecords ==
    /\ pc = "http"
    /\ attempt = 0
    /\ phase = "geo"
    /\ lastOutcome = "failed"
    /\ utilities_by_eia # <<>>

\* C6: api_call makes at most 3 HTTP attempts, waits k seconds after the
\* k-th failed attempt before the next one, and returns None after the 3rd
\* failed attempt without raising.
C6_ApiCallRetriesThenReturns ==
    /\ attempt < Retries
    /\ (pc = "http" /\ attempt > 0) => slept = <<10 * attempt>>
    /\ lastOutcome # "raised"

\* C7: in fetch_utilities_for_state every api_call is followed by the 0.3 s
\* pacing delay before the next api_call is issued.
C7_PacingBetweenCalls ==
    (pc = "http" /\ attempt = 0 /\ calls > 0) => slept = <<Pacing>>

\* C8: the record extractor functions never raise, whatever the item.
C8_ExtractorsNeverRaise ==
    ~(pc = "crashed" /\ lastItem # "" /\ exception \in {"TypeError", "AttributeError"})

\* C9: no transient network failure propagates out of api_call or past the
\* per-state loop of main: the run always proceeds to the next state.
C9_NoNetworkFailurePropagates ==
    exception \notin UncaughtErrors

\* C10: when the API key argument is missing, main exits with a non-zero
\* status before any network request and before any directory or file is
\* created.
C10_MissingKeyExitsFirst ==
    Len(argv) = 1 =>
        /\ ~networkUsed
        /\ ~dirCreated
        /\ \A f \in DOMAIN files : files[f].status = "absent"
        /\ pc \in {"start", "exited"}
        /\ pc = "exited" => exitStatus > 0

\* main has exited on a command line without the key argument
C10_ExitedWithoutKey ==
    /\ Len(argv) = 1
    /\ pc = "exited"
    /\ exitStatus = 1

\* the rate names of the items geographic responses can carry
GeoNames == {GeoItemSeq(CurState)[i].name : i \in 1..Len(GeoItemSeq(CurState))}

\* the records of the returned list that carry the name Delmarva Power
DelmarvaRecords == {i \in 1..Len(results) : results[i].utility_name = DelmarvaPower}

\* the record has the values of a record synthesized for Delmarva Power
IsDelmarvaSynthesized(rec) ==
    /\ rec.utility_name = DelmarvaPower
    /\ rec.customer_count = 310000
    /\ rec.rate_structure = "tiered"
    /\ rec.residential_avg_rate = 14320
    /\ rec.tou_available = FALSE
    /\ rec.demand_charges = FALSE

\* C11 as stated: for DE, when no record stored by the geographic queries
\* matches Delmarva Power, the returned list holds exactly one record for
\* Delmarva Power and it is the synthesized one (310000, "tiered", 0.1432,
\* no time-of-use, no demand charges).
C11_DelawareAlwaysSynthesized ==
    (Returned /\ CurState = "DE"
       /\ \A i \in 1..Len(utilities_by_eia) :
             utilities_by_eia[i].rec._rate_name \in GeoNames
                => ~NameMatch(DelmarvaPower, utilities_by_eia[i].rec.utility_name))
    => /\ Cardinality(RecordsOf(MAJOR_IOUS("DE")[1])) = 1
       /\ \A i \in RecordsOf(MAJOR_IOUS("DE")[1]) : IsDelmarvaSynthesized(results[i])

\* C11, amended: for DE, when no stored record matches Delmarva Power after
\* the geographic queries and the direct-name query for it fails or returns
\* no item, the fetch returns a list with exactly one record for Delmarva
\* Power, the synthesized one (310000, "tiered", 0.1432, no time-of-use, no
\* demand charges).
C11_DelawareSynthesizedWhenDirectEmpty ==
    [][ (/\ pc = "http" /\ phase = "direct" /\ CurState = "DE"
         /\ ~Found(utilities_by_eia, DelmarvaPower)
         /\ \/ DirectNoItem
            \/ (attempt = Retries - 1 /\ lastOutcome' = "failed"))
        => /\ pc' = "fetched"
           /\ Cardinality({i \in 1..Len(results') :
                    NameMatch(DelmarvaPower, results'[i].utility_name)}) = 1
           /\ \A i \in 1..Len(results') :
                 NameMatch(DelmarvaPower, results'[i].utility_name)
                    => IsDelmarvaSynthesized(results'[i])
      ]_vars

\* DE has been fetched with a failed direct-name query after geographic
\* queries that stored a record of another utility: Delmarva Power is there
\* through its synthesized record
C11_DelawareSynthesizedReturned ==
    /\ Returned /\ CurState = "DE"
    /\ lastOutcome = "failed"
    /\ Len(results) = 2
    /\ \E i \in 1..Len(results) : IsDelmarvaSynthesized(results[i])

\* the weekday schedule holds two different period indices
DistinctPeriods(weekday) ==
    \E m1, m2 \in 1..Len(weekday) :
        \E h1 \in 1..Len(weekday[m1]), h2 \in 1..Len(weekday[m2]) :
            weekday[m1][h1] # weekday[m2][h2]

\* some rate period has more than one tier
AnyMultiTier(structure) == \E p \in 1..Len(structure) : Len(structure[p]) > 1

TierRate(tier) == tier.rate.v + (IF tier.adj.k = "num" THEN tier.adj.v ELSE 0)

\* the sum of rate + adjustment over the first n tiers of a period, and over
\* the first n periods of a matrix; the number of tiers of the first n periods
RECURSIVE PeriodTotal(_, _)
PeriodTotal(period, n) ==
    IF n = 0 THEN 0 ELSE PeriodTotal(period, n - 1) + TierRate(period[n])

RECURSIVE MatrixTotal(_, _)
MatrixTotal(structure, n) ==
    IF n = 0 THEN 0
    ELSE MatrixTotal(structure, n - 1) + PeriodTotal(structure[n], Len(structure[n]))

RECURSIVE MatrixTiers(_, _)
MatrixTiers(structure, n) ==
    IF n = 0 THEN 0 ELSE MatrixTiers(structure, n - 1) + Len(structure[n])

\* a matrix of at least one tier, every tier with a numeric rate and a
\* numeric or missing adjustment
TieredMatrix(structure) ==
    /\ structure.k = "list"
    /\ MatrixTiers(structure.v, Len(structure.v)) > 0
    /\ \A p \in 1..Len(structure.v) : \A t \in 1..Len(structure.v[p]) :
          /\ structure.v[p][t].rate.k = "num"
          /\ structure.v[p][t].adj.k \in {"absent", "num"}

\* no matrix: the member is missing, null, or holds no tier
NoMatrix(structure) ==
    structure.k # "list" \/ MatrixTiers(structure.v, Len(structure.v)) = 0

\* the mean of the matrix, to 5 decimal places
MatrixMean(structure) ==
    RoundDiv(MatrixTotal(structure.v, Len(structure.v)),
             MatrixTiers(structure.v, Len(structure.v)))

\* C13 as stated: extract_rate_from_structure returns the unweighted mean of
\* rate + adjustment over every tier of every period of the matrix (0.10 and
\* 0.12 in one period give 0.11); without a matrix it returns
\* fixedmonthlycharge / 1000 if the fixed charge is nonzero and None
\* otherwise.
C13_ExtractRateNonzeroFixed ==
    probe.applied = "extract_rate_from_structure" =>
        LET structure == probe.rate_data.energyratestructure
            fixed == probe.rate_data.fixedmonthlycharge
        IN  /\ TieredMatrix(structure) =>
                    probe.rate = [k |-> "num", v |-> MatrixMean(structure)]
            /\ NoMatrix(structure) =>
                    IF fixed.k = "num" /\ fixed.v # 0
                    THEN probe.rate = [k |-> "num", v |-> RoundDiv(fixed.v, 1000)]
                    ELSE probe.rate.k = "none"

\* C13, amended: extract_rate_from_structure returns the unweighted mean of
\* rate + adjustment over every tier of every period of the matrix (0.10 and
\* 0.12 in one period give 0.11); without a matrix it returns
\* fixedmonthlycharge / 1000 if the fixed charge is positive and None
\* otherwise.
C13_ExtractRatePositiveFixed ==
    probe.applied = "extract_rate_from_structure" =>
        LET structure == probe.rate_data.energyratestructure
            fixed == probe.rate_data.fixedmonthlycharge
        IN  /\ TieredMatrix(structure) =>
                    probe.rate = [k |-> "num", v |-> MatrixMean(structure)]
            /\ NoMatrix(structure) =>
                    IF fixed.k = "num" /\ fixed.v > 0
                    THEN probe.rate = [k |-> "num", v |-> RoundDiv(fixed.v, 1000)]
                    ELSE probe.rate.k = "none"

\* two periods, the second with two tiers and a negative adjustment: the
\* mean of 0.08, 0.09 and 0.195 is 0.12167
C13_MeanOverEveryTier ==
    /\ probe.applied = "extract_rate_from_structure"
    /\ TieredMatrix(probe.rate_data.energyratestructure)
    /\ Len(probe.rate_data.energyratestructure.v) = 2
    /\ probe.rate = [k |-> "num", v |-> 12167]

\* the records of the dict without their internal members, in the order in
\* which their keys were first stored
Encountered == [i \in 1..Len(utilities_by_eia) |-> Clean(utilities_by_eia[i].rec)]

\* C14: the list returned by fetch_utilities_for_state is ordered by
\* customer_count descending, and records with equal customer_count appear in
\* the order in which their utility ids were first encountered.
C14_SortedByCustomerCount ==
    Returned =>
        /\ Len(results) = Len(Encountered)
        /\ \A i, j \in 1..Len(results) :
              i < j => results[i].customer_count >= results[j].customer_count
        /\ \E at \in [1..Len(Encountered) -> 1..Len(results)] :
              /\ \A a, b \in 1..Len(Encountered) : a # b => at[a] # at[b]
              /\ \A a \in 1..Len(Encountered) : results[at[a]] = Encountered[a]
              /\ \A a, b \in 1..Len(Encountered) :
                    (a < b /\ Encountered[a].customer_count = Encountered[b].customer_count)
                        => at[a] < at[b]

\* a returned list of three records or more that the sort has reordered and
\* that holds two different records of equal customer_count
C14_TiesAfterReordering ==
    /\ Returned
    /\ Len(results) >= 3
    /\ results # Encountered
    /\ \E i, j \in 1..Len(results) :
          /\ i < j
          /\ results[i].customer_count = results[j].customer_count
          /\ results[i] # results[j]

\* C15: at every point of the run, where an external interruption may end
\* it, no partially written state file exists: each state's file is absent
\* or complete, and the files appear in the sorted order of the states.
C15_NoPartialStateFile ==
    /\ \A st \in StateSet : files[st].status \in {"absent", "complete"}
    /\ \A i, j \in 1..Len(States) :
          (i < j /\ files[States[j]].status # "absent")
              => files[States[i]].status = "complete"

\* the file of the second state has been opened for writing and its content
\* has not been written yet
C15_StateFileOpened ==
    /\ pc = "dump"
    /\ stateIdx = 2
    /\ files[States[1]].status = "complete"
    /\ files[States[2]].status = "open"

\* C16: national_avg_rate of the national summary is the unweighted mean of
\* the 50 EIA_STATE_AVG_RATES values rounded to 4 places, 0.1578, in every
\* run, whatever utilities were found and whatever queries failed.
C16_NationalAverageOfStateRates ==
    /\ Len(EIA_STATE_AVG_RATES_values) = 50
    /\ \A st \in StateSet :
          \E i \in 1..Len(EIA_STATE_AVG_RATES_values) :
              EIA_STATE_AVG_RATES_values[i] = EIA_STATE_AVG_RATES(st)
    /\ files["national"].status = "complete" =>
          files["national"].national_avg_rate = 15780

\* the national summary has been written by a run whose last query failed
\* and whose last state has utilities with a rate other than the average
C16_NationalWrittenAfterFailure ==
    /\ pc = "done"
    /\ lastOutcome = "failed"
    /\ files["national"].status = "complete"
    /\ files["national"].national_avg_rate = 15780
    /\ \E i \in 1..Len(results) :
          results[i].residential_avg_rate # EIA_STATE_AVG_RATES(States[Len(States)])

\* C17: in the geographic phase every item whose utility id has no stored
\* record yet is accepted and produces a record, with no other condition on
\* the item.
C17_UnseenIdAccepted ==
    [][ (pc = "items" /\ pc' = "items" /\ itemNo' = itemNo + 1) =>
            LET item == ItemNamed(lastItem')
                eia_id == GetId(item.eiaid, PyNone)
            IN  Lookup(utilities_by_eia, eia_id) = 0 =>
                    /\ Lookup(utilities_by_eia', eia_id) # 0
                    /\ utilities_by_eia'[Lookup(utilities_by_eia', eia_id)].rec._rate_name
                          = item.name
      ]_vars

\* the item without "eiaid" has been processed and nothing is stored
C17_ItemWithoutIdDropped ==
    /\ pc = "items"
    /\ lastItem = "g6"
    /\ itemNo = 1
    /\ utilities_by_eia = <<>>

\* C18: a direct-name query is issued only after the last geographic query
\* of the state has completed, at most once per known utility, only for a
\* known utility with a nonzero customer count that no accumulated record
\* name matches (case-insensitive substring, either direction) when it is
\* examined, and never for a known utility whose customer count is 0.
C18_DirectQueryConditions ==
    [][ /\ (pc' = "http" /\ phase' = "direct") =>
              LET known_ious == MAJOR_IOUS(States[stateIdx'])
              IN  /\ calls' >= QueryPointCount(States[stateIdx'])
                  /\ qIdx' \in 1..Len(known_ious)
                  /\ known_ious[qIdx'].count # 0
                  /\ \A i \in 1..Len(utilities_by_eia') :
                        LET name == utilities_by_eia'[i].rec.utility_name
                        IN  /\ ~Contains(Lower(known_ious[qIdx'].name), Lower(name))
                            /\ ~Contains(Lower(name), Lower(known_ious[qIdx'].name))
        /\ (pc = "http" /\ phase = "direct" /\ pc' = "http") =>
              /\ phase' = "direct"
              /\ IF calls' = calls THEN qIdx' = qIdx ELSE qIdx' > qIdx
      ]_vars

\* the second known utility of VA is searched by name after the first one
\* was, the third one having a customer count of 0
C18_SecondDirectQuery ==
    /\ pc = "http"
    /\ phase = "direct"
    /\ CurState = "VA"
    /\ qIdx = 2
    /\ calls = QueryPointCount("VA") + 1
    /\ MAJOR_IOUS("VA")[3].count = 0
    /\ utilities_by_eia # <<>>

\* the fetch of the current state has ended, by a return or by an exception
FetchEnded == pc \in {"fetched", "crashed"}

\* the geographic queries the fetch has issued
GeoQueriesIssued == IF phase = "geo" THEN qIdx ELSE QueryPointCount(CurState)

\* C19: fetch_utilities_for_state ends after exactly one geographic query per
\* query point of the state and at most one direct-name query per known
\* utility, each query making at most 3 attempts.
C19_EndsAfterEveryQueryPoint ==
    /\ attempt < Retries
    /\ FetchEnded =>
          /\ GeoQueriesIssued = QueryPointCount(CurState)
          /\ calls <= QueryPointCount(CurState) + Len(MAJOR_IOUS(CurState))

\* the fetch of VA has ended with an exception in its first geographic
\* query, two query points not queried
C19_EndedBeforeLastQueryPoint ==
    /\ pc = "crashed"
    /\ CurState = "VA"
    /\ phase = "geo"
    /\ qIdx = 1
    /\ exception \in UncaughtErrors

\* the rate names of the items direct-name responses can carry
DirectNames == {DirectItemSeq[i].name : i \in 1..Len(DirectItemSeq)}

\* C20: in every record emitted by fetch_utilities_for_state, tou_available
\* is true if and only if rate_structure is "tou", whether the record was
\* built from a geographic item, from a direct-name item or synthesized.
C20_TouAvailableIffTou ==
    /\ \A i \in 1..Len(utilities_by_eia) :
          utilities_by_eia[i].rec.tou_available
              <=> utilities_by_eia[i].rec.rate_structure = "tou"
    /\ \A i \in 1..Len(results) :
          results[i].tou_available <=> results[i].rate_structure = "tou"

\* a returned list with a time-of-use record built from a geographic item, a
\* record built from a direct-name item and a synthesized record
C20_RecordsOfEveryOrigin ==
    /\ Returned
    /\ Len(results) = Len(utilities_by_eia)
    /\ \E i, j, k \in 1..Len(utilities_by_eia) :
          /\ utilities_by_eia[i].rec._rate_name \in GeoNames
          /\ utilities_by_eia[i].rec.tou_available
          /\ utilities_by_eia[j].rec._rate_name \in DirectNames
          /\ ~utilities_by_eia[j].rec.tou_available
          /\ utilities_by_eia[k].rec._rate_name = "Estimated"

\* C21: a record stored for a utility id during the geographic phase is
\* never replaced during the back-fill phase by a direct-name item whose
\* start date is less than or equal to the stored record's start date.
C21_BackFillKeepsNewerRecord ==
    [][ (pc = "http" /\ phase = "direct") =>
            \A i \in 1..Len(utilities_by_eia) :
                (/\ utilities_by_eia[i].rec._rate_name \in GeoNames
                 /\ i <= Len(utilities_by_eia')
                 /\ utilities_by_eia'[i].rec # utilities_by_eia[i].rec)
                    => utilities_by_eia'[i].rec._startdate
                          > utilities_by_eia[i].rec._startdate
      ]_vars

\* the returned record of identifier 5 comes from the direct-name item d2,
\* start date 50, although a geographic item with that identifier carried a
\* start date of 100 or more
C21_OlderDirectItemReturned ==
    /\ Returned
    /\ \E i \in 1..Len(utilities_by_eia) :
          /\ utilities_by_eia[i].key = PyInt(5)
          /\ utilities_by_eia[i].rec._rate_name = "d2"
          /\ utilities_by_eia[i].rec._startdate = 50
          /\ \E h \in newest : h.key = PyInt(5) /\ h.start >= 100
          /\ \E j \in 1..Len(results) :
                results[j] = Clean(utilities_by_eia[i].rec)

====
